---- MODULE Spec2Model ----
(***************************************************************************)
(* Verification model of the agriculture-agent tutorial repository.        *)
(*                                                                         *)
(* The repository is a set of independent programs.  Each is modelled as   *)
(* its own component with its own specification:                           *)
(*   SpecAgent     - the agent loops (stage 04/05/06 query(), stage 06     *)
(*                   chat()) and the stage-04 test harnesses               *)
(*   SpecTransport - the parent side of the subprocess JSON-RPC scripts    *)
(*   SpecHandler   - the tool handlers of the MCP servers                  *)
(*   SpecRequest   - EnhancedOpenMeteoClient._make_request                 *)
(* A component that is not running keeps its variables at their "off"      *)
(* values.                                                                 *)
(***************************************************************************)
EXTENDS Integers, Sequences, FiniteSets, TLC

VARIABLES
    \* ---- agent component
    stage,            \* which agent implementation runs
    harness,          \* how the caller issues query(): one at a time or gathered
    agentReady,       \* self.agent is not None
    nTools,           \* len(self.tools) after discovery
    msgObj,           \* identity of the list object self.messages is bound to
    heap,             \* contents of every list object ever bound to self.messages
    checkpoint,       \* MemorySaver: thread id -> stored messages
    conversation_id,  \* self.conversation_id
    qpc,              \* position of each query() call
    qref,             \* list object (stage 04) / thread (stage 05, 06) a call works on
    qinput,           \* the "messages" the call hands to agent.ainvoke
    qstate,           \* the agent graph's message state of the call
    outcome,          \* how the call ended
    elapsed,          \* seconds spent inside agent.ainvoke
    resets,           \* number of clear_history() calls so far
    workers,          \* running worker subprocesses spawned by initialize()
    cleaned,          \* cleanup() has returned
    \* ---- subprocess transport component
    script,           \* which parent script runs
    ppc,              \* position of the parent script
    worker,           \* the worker subprocess
    stdinQ,           \* request ids written to the worker's stdin, not yet read by it
    stdoutQ,          \* response ids written by the worker, not yet read by the parent
    sent,             \* every request id the parent wrote, in order
    got,              \* what each of the parent's reads returned
    waited,           \* seconds the parent has been blocked in its current read
    perror,           \* exception that ended the parent's try block
    diedInFlight,     \* requests that were outstanding when the worker died
    \* ---- tool handler component
    handler,          \* which handler / entry point serves the call
    req,              \* the arguments of the call
    clock,            \* hour of the day at which the call is served
    hpc,              \* position of the handler
    failure,          \* failure the geocoder or the provider answered with
    hresult,          \* what the call produced
    geoLookups,       \* geocoding lookups issued on behalf of the call
    provReqs,         \* provider data requests issued on behalf of the call
    coordsSent,       \* coordinates the provider request carries
    \* ---- request component (EnhancedOpenMeteoClient._make_request)
    max_retries,      \* self.max_retries
    cache,            \* unexpired cache entries: key and the request that stored it
    cache_key,        \* the cache_key argument of the current call
    params,           \* the request parameters of the current call
    served,           \* parameters of the request whose response the call returned
    rpc,              \* position inside _make_request
    attempt,          \* loop variable of "for attempt in range(self.max_retries)"
    last_error,       \* last_error
    httpAttempts,     \* outcome of every self.client.get of the current call
    sleeps,           \* every asyncio.sleep of the current call, in seconds
    rresult,          \* how the current call ended
    calls,            \* number of _make_request calls started
    \* ---- location resolver component
    resolver,         \* which resolver function is called
    location,         \* the location argument, as its comma-separated parts
    results,          \* the matches the geocoder holds for the city, in its order
    gpc,              \* position of the resolver
    resolution,       \* what the resolver returned
    \* WeatherCache (stage 05 enhanced_api_utils)
    ttl_seconds,      \* self.ttl_seconds
    entries,          \* self._cache: key -> (data, timestamp), or no entry
    written,          \* history: what the last set() under each key stored
    utcnow,           \* the clock datetime.utcnow() reads, in seconds
    lastGet           \* the last get(): its key, time, result and effect

agentVars == <<stage, harness, agentReady, nTools, msgObj, heap, checkpoint,
               conversation_id, qpc, qref, qinput, qstate, outcome, elapsed, resets,
               workers, cleaned>>

transportVars == <<script, ppc, worker, stdinQ, stdoutQ, sent, got, waited,
                   perror, diedInFlight>>

handlerVars == <<handler, req, clock, hpc, failure, hresult, geoLookups, provReqs,
                 coordsSent>>

requestVars == <<max_retries, cache, cache_key, params, served, rpc, attempt, last_error,
                 httpAttempts, sleeps, rresult, calls>>

resolverVars == <<resolver, location, results, gpc, resolution>>

cacheVars == <<ttl_seconds, entries, written, utcnow, lastGet>>

vars == <<agentVars, transportVars, handlerVars, requestVars, resolverVars, cacheVars>>

\* a step of one component leaves the other components alone
AgentOnly == UNCHANGED <<transportVars, handlerVars, requestVars, resolverVars, cacheVars>>
TransportOnly == UNCHANGED <<agentVars, handlerVars, requestVars, resolverVars, cacheVars>>
HandlerOnly == UNCHANGED <<agentVars, transportVars, requestVars, resolverVars, cacheVars>>
RequestOnly == UNCHANGED <<agentVars, transportVars, handlerVars, resolverVars, cacheVars>>
ResolverOnly == UNCHANGED <<agentVars, transportVars, handlerVars, requestVars, cacheVars>>
CacheOnly == UNCHANGED <<agentVars, transportVars, handlerVars, requestVars, resolverVars>>

----------------------------------------------------------------------------
(* Bounds of the model *)

MaxQueries == 2
MaxResets == 1
MaxElapsed == 180
TickSeconds == 30
MaxWait == 15
WaitSeconds == 5
Today == 20
MaxRetriesArg == 3
MaxCalls == 2
MaxResults == 3
MaxTtl == 2
MaxNow == 4

(* Program constants *)

QUERY_TIMEOUT == 120
DISCOVERED_TOOLS == 3
HANDSHAKE_READ_TIMEOUT == 5
CALL_READ_TIMEOUT == 10
INIT_ID == 1
LIST_ID == 2
CALL_ID == 3
EMBARGO_DAYS == 5
PAST_DAYS_CAP == 92
DEFAULT_DAYS == 7
FORECAST_CAP == 16
AGRI_CAP == 7

----------------------------------------------------------------------------
(* Helpers *)

IsPrefix(s, t) ==
    /\ Len(s) <= Len(t)
    /\ \A i \in 1..Len(s) : s[i] = t[i]

Last(s) == s[Len(s)]

Queries == 1..MaxQueries
ListObjs == 0..(MaxQueries + MaxResets)
ThreadIds == 0..MaxResets

Turn(role, q) == [role |-> role, q |-> q]

SystemTurn == Turn("system", 0)

----------------------------------------------------------------------------
(* Agent component *)

\* "bot04" is the stage 04 SimpleWeatherChatbot, whose chat() wraps the
\* stage 04 agent's query()
Stages == {"s04", "s05", "s06", "chat", "bot04"}

\* stages whose conversation is the agent's self.messages list
KeepsMessageList(s) == s \in {"s04", "bot04"}

\* stages whose query() wraps agent.ainvoke in asyncio.wait_for(..., timeout=120.0)
HasWaitFor(s) == s \in {"s04", "s05", "s06", "bot04"}

\* stages whose query() ends with "except Exception: return f'An error occurred...'"
CatchesException(s) == s \in {"s05", "s06"}

\* stages that keep the conversation in a checkpointer keyed by thread id
UsesCheckpointer(s) == s \in {"s05", "s06"}

InFlight(q) == qpc[q] \in {"invoked", "llm", "tools", "finished"}

messages == heap[msgObj]

AgentOff ==
    /\ stage = "off"
    /\ harness = "sequential"
    /\ agentReady = FALSE
    /\ nTools = 0
    /\ msgObj = 0
    /\ heap = [o \in ListObjs |-> <<>>]
    /\ checkpoint = [t \in ThreadIds |-> <<>>]
    /\ conversation_id = 0
    /\ qpc = [q \in Queries |-> "idle"]
    /\ qref = [q \in Queries |-> 0]
    /\ qinput = [q \in Queries |-> <<>>]
    /\ qstate = [q \in Queries |-> <<>>]
    /\ outcome = [q \in Queries |-> "none"]
    /\ elapsed = [q \in Queries |-> 0]
    /\ resets = 0
    /\ workers = 0
    /\ cleaned = FALSE

InitAgentVars ==
    /\ stage \in Stages
    /\ harness \in {"sequential", "concurrent"}
    /\ (harness = "concurrent" => stage = "s04")
    /\ agentReady = FALSE
    /\ nTools = 0
    /\ msgObj = 0
    /\ heap = [o \in ListObjs |->
                 IF o = 0 /\ KeepsMessageList(stage) THEN <<SystemTurn>> ELSE <<>>]
    /\ checkpoint = [t \in ThreadIds |-> <<>>]
    /\ conversation_id = 0
    /\ qpc = [q \in Queries |-> "idle"]
    /\ qref = [q \in Queries |-> 0]
    /\ qinput = [q \in Queries |-> <<>>]
    /\ qstate = [q \in Queries |-> <<>>]
    /\ outcome = [q \in Queries |-> "none"]
    /\ elapsed = [q \in Queries |-> 0]
    /\ resets = 0
    /\ workers = 0
    /\ cleaned = FALSE

\* initialize(): tool discovery, then create_react_agent
InitializeCreatesAgent(s, n) == IF s = "chat" THEN n > 0 ELSE TRUE

\* number of "transport": "stdio" entries of server_config: each is a worker
\* subprocess the MCP client spawns; stage 06 connects to HTTP servers
StdioServers(s) == CASE KeepsMessageList(s) -> 1 [] s = "s05" -> 3 [] OTHER -> 0

\* workers still running when initialize() returns: the client either keeps
\* the sessions it opened for get_tools() or has closed them again; the
\* agent code does not say which
WorkersAfterDiscovery(s) == {0, StdioServers(s)}

Initialize(n, live) ==
    /\ stage \in Stages
    /\ ~agentReady
    /\ ~cleaned
    /\ \A q \in Queries : qpc[q] = "idle"
    /\ nTools' = n
    /\ agentReady' = InitializeCreatesAgent(stage, n)
    /\ workers' = live
    /\ UNCHANGED <<stage, harness, msgObj, heap, checkpoint, conversation_id,
                   qpc, qref, qinput, qstate, outcome, elapsed, resets, cleaned>>
    /\ AgentOnly

\* the caller may issue query q now
MayStart(q) ==
    /\ qpc[q] = "idle"
    /\ ~cleaned
    /\ \A p \in Queries : p < q => qpc[p] # "idle"
    /\ harness = "sequential" => \A p \in Queries : ~InFlight(p)

\* query()/chat() called before initialize() produced an agent
QueryNotInitialized(q) ==
    /\ stage \in Stages \ {"bot04"}
    /\ MayStart(q)
    /\ ~agentReady
    /\ qpc' = [qpc EXCEPT ![q] = "done"]
    /\ outcome' = [outcome EXCEPT ![q] =
                      IF stage = "chat" THEN "not_initialized_string"
                                        ELSE "not_initialized_raised"]
    /\ UNCHANGED <<stage, harness, agentReady, nTools, msgObj, heap, checkpoint,
                   conversation_id, qref, qinput, qstate, elapsed, resets>>
    /\ UNCHANGED <<workers, cleaned>>
    /\ AgentOnly

\* stage 04 query(): self.messages.append(HumanMessage(...)), then the
\* ainvoke coroutine is created over {"messages": self.messages}
QueryStart04(q) ==
    /\ KeepsMessageList(stage)
    /\ MayStart(q)
    /\ agentReady
    /\ heap' = [heap EXCEPT ![msgObj] = Append(@, Turn("user", q))]
    /\ qref' = [qref EXCEPT ![q] = msgObj]
    /\ qpc' = [qpc EXCEPT ![q] = "invoked"]
    /\ UNCHANGED <<stage, harness, agentReady, nTools, msgObj, checkpoint,
                   conversation_id, qinput, qstate, outcome, elapsed, resets>>
    /\ UNCHANGED <<workers, cleaned>>
    /\ AgentOnly

\* SimpleWeatherChatbot.chat() before the chatbot is initialized: the lazy
\* "await self.initialize()" runs ahead of the try block; when it raises
\* (the worker cannot be spawned, tool discovery fails) the exception leaves
\* chat() and self.initialized stays False; otherwise the query starts
BotChatInit(q, ok, n, live) ==
    /\ stage = "bot04"
    /\ MayStart(q)
    /\ ~agentReady
    /\ IF ok
       THEN /\ agentReady' = TRUE
            /\ nTools' = n
            /\ workers' = live
            /\ heap' = [heap EXCEPT ![msgObj] = Append(@, Turn("user", q))]
            /\ qref' = [qref EXCEPT ![q] = msgObj]
            /\ qpc' = [qpc EXCEPT ![q] = "invoked"]
            /\ UNCHANGED outcome
       ELSE /\ qpc' = [qpc EXCEPT ![q] = "done"]
            /\ outcome' = [outcome EXCEPT ![q] = "init_raised"]
            /\ UNCHANGED <<agentReady, nTools, workers, heap, qref>>
    /\ UNCHANGED <<stage, harness, msgObj, checkpoint, conversation_id, qinput,
                   qstate, elapsed, resets, cleaned>>
    /\ AgentOnly

\* an input that carries the system message on every query
QueryInput05_always(q, stored) == <<SystemTurn, Turn("user", q)>>

\* an input that never carries the system message
QueryInput05_bare(q, stored) == <<Turn("user", q)>>

\* stage 05/06 query(): the system message is inserted when the thread's
\* checkpoint holds no messages
QueryInput05(q, stored) ==
    IF stored = <<>> THEN <<SystemTurn, Turn("user", q)>> ELSE <<Turn("user", q)>>

QueryStart05(q) ==
    /\ UsesCheckpointer(stage)
    /\ MayStart(q)
    /\ agentReady
    /\ qref' = [qref EXCEPT ![q] = conversation_id]
    /\ qinput' = [qinput EXCEPT ![q] = QueryInput05(q, checkpoint[conversation_id])]
    /\ qpc' = [qpc EXCEPT ![q] = "invoked"]
    /\ UNCHANGED <<stage, harness, agentReady, nTools, msgObj, heap, checkpoint,
                   conversation_id, qstate, outcome, elapsed, resets>>
    /\ UNCHANGED <<workers, cleaned>>
    /\ AgentOnly

\* stage 06 chat(): a fresh one-message input, no stored conversation
ChatStart(q) ==
    /\ stage = "chat"
    /\ MayStart(q)
    /\ agentReady
    /\ qinput' = [qinput EXCEPT ![q] = <<Turn("user", q)>>]
    /\ qpc' = [qpc EXCEPT ![q] = "invoked"]
    /\ UNCHANGED <<stage, harness, agentReady, nTools, msgObj, heap, checkpoint,
                   conversation_id, qref, qstate, outcome, elapsed, resets>>
    /\ UNCHANGED <<workers, cleaned>>
    /\ AgentOnly

\* the agent graph reads its input: stage 04 reads the list object the call
\* passed (with whatever was appended to it since); a checkpointed graph
\* appends the input to the thread's stored messages
AgentReadState(q) ==
    CASE KeepsMessageList(stage) -> heap[qref[q]]
      [] UsesCheckpointer(stage) -> checkpoint[qref[q]] \o qinput[q]
      [] OTHER -> qinput[q]

SaveCheckpoint(q, st) ==
    IF UsesCheckpointer(stage)
    THEN checkpoint' = [checkpoint EXCEPT ![qref[q]] = st]
    ELSE UNCHANGED checkpoint

AgentRead(q) ==
    /\ qpc[q] = "invoked"
    /\ qstate' = [qstate EXCEPT ![q] = AgentReadState(q)]
    /\ SaveCheckpoint(q, AgentReadState(q))
    /\ qpc' = [qpc EXCEPT ![q] = "llm"]
    /\ UNCHANGED <<stage, harness, agentReady, nTools, msgObj, heap,
                   conversation_id, qref, qinput, outcome, elapsed, resets>>
    /\ UNCHANGED <<workers, cleaned>>
    /\ AgentOnly

\* one more step of d seconds fits: under wait_for it must end by the
\* timeout, otherwise only the model's horizon stops it
StepFits(q, d) ==
    IF HasWaitFor(stage) THEN elapsed[q] + d <= QUERY_TIMEOUT
                         ELSE elapsed[q] + d <= MaxElapsed

\* the language model answers: either tool calls or the final text
AgentLLM(q, kind) ==
    /\ qpc[q] = "llm"
    /\ StepFits(q, TickSeconds)
    /\ elapsed' = [elapsed EXCEPT ![q] = @ + TickSeconds]
    /\ qstate' = [qstate EXCEPT ![q] = Append(@, Turn(kind, q))]
    /\ SaveCheckpoint(q, Append(qstate[q], Turn(kind, q)))
    /\ qpc' = [qpc EXCEPT ![q] = IF kind = "tool_call" THEN "tools" ELSE "finished"]
    /\ UNCHANGED <<stage, harness, agentReady, nTools, msgObj, heap,
                   conversation_id, qref, qinput, outcome, resets>>
    /\ UNCHANGED <<workers, cleaned>>
    /\ AgentOnly

\* the tool node dispatches the requested call and appends its result
\* (a payload or a structured error) as a tool turn
AgentTool(q, res) ==
    /\ qpc[q] = "tools"
    /\ StepFits(q, TickSeconds)
    /\ elapsed' = [elapsed EXCEPT ![q] = @ + TickSeconds]
    /\ qstate' = [qstate EXCEPT ![q] = Append(@, Turn(res, q))]
    /\ SaveCheckpoint(q, Append(qstate[q], Turn(res, q)))
    /\ qpc' = [qpc EXCEPT ![q] = "llm"]
    /\ UNCHANGED <<stage, harness, agentReady, nTools, msgObj, heap,
                   conversation_id, qref, qinput, outcome, resets>>
    /\ UNCHANGED <<workers, cleaned>>
    /\ AgentOnly

\* agent.ainvoke raises something other than a timeout (language-model API
\* error, transport error of a tool, recursion limit)
\* the chatbot's chat() turns both into message strings
RaiseOutcome(s) ==
    IF CatchesException(s) \/ s = "bot04" THEN "error_string" ELSE "raised_error"

TimeoutOutcome(s) == IF s = "bot04" THEN "timeout_string" ELSE "timeout_error"

AgentRaise(q) ==
    /\ qpc[q] \in {"llm", "tools"}
    /\ qpc' = [qpc EXCEPT ![q] = "done"]
    /\ outcome' = [outcome EXCEPT ![q] = RaiseOutcome(stage)]
    /\ UNCHANGED <<stage, harness, agentReady, nTools, msgObj, heap, checkpoint,
                   conversation_id, qref, qinput, qstate, elapsed, resets>>
    /\ UNCHANGED <<workers, cleaned>>
    /\ AgentOnly

\* asyncio.wait_for cancels the invocation when the timeout elapses
QueryTimeout(q) ==
    /\ HasWaitFor(stage)
    /\ qpc[q] \in {"llm", "tools"}
    /\ elapsed[q] + TickSeconds > QUERY_TIMEOUT
    /\ elapsed' = [elapsed EXCEPT ![q] = QUERY_TIMEOUT]
    /\ qpc' = [qpc EXCEPT ![q] = "done"]
    /\ outcome' = [outcome EXCEPT ![q] = TimeoutOutcome(stage)]
    /\ UNCHANGED <<stage, harness, agentReady, nTools, msgObj, heap, checkpoint,
                   conversation_id, qref, qinput, qstate, resets>>
    /\ UNCHANGED <<workers, cleaned>>
    /\ AgentOnly

\* ainvoke returned: stage 04 rebinds self.messages to result["messages"]
\* (a new list); every stage returns the last message's content
NewListObj == msgObj + 1

QueryReturn(q) ==
    /\ qpc[q] = "finished"
    /\ IF KeepsMessageList(stage)
       THEN /\ msgObj' = NewListObj
            /\ heap' = [heap EXCEPT ![NewListObj] = qstate[q]]
       ELSE UNCHANGED <<msgObj, heap>>
    /\ qpc' = [qpc EXCEPT ![q] = "done"]
    /\ outcome' = [outcome EXCEPT ![q] = "final_text"]
    /\ UNCHANGED <<stage, harness, agentReady, nTools, checkpoint,
                   conversation_id, qref, qinput, qstate, elapsed, resets>>
    /\ UNCHANGED <<workers, cleaned>>
    /\ AgentOnly

\* clear_history(): stage 04 keeps only messages[0]; stage 05/06 switch to a
\* fresh thread id
ClearHistory ==
    /\ stage \in {"s04", "s05", "s06"}
    /\ harness = "sequential"
    /\ agentReady
    /\ ~cleaned
    /\ resets < MaxResets
    /\ \A q \in Queries : ~InFlight(q)
    /\ resets' = resets + 1
    /\ IF stage = "s04"
       THEN /\ msgObj' = NewListObj
            /\ heap' = [heap EXCEPT ![NewListObj] = <<messages[1]>>]
            /\ UNCHANGED conversation_id
       ELSE /\ conversation_id' = conversation_id + 1
            /\ UNCHANGED <<msgObj, heap>>
    /\ UNCHANGED <<stage, harness, agentReady, nTools, checkpoint,
                   qpc, qref, qinput, qstate, outcome, elapsed>>
    /\ UNCHANGED <<workers, cleaned>>
    /\ AgentOnly

\* cleanup(): the body is "pass" (stage 04, 05) or a print (stage 06); no
\* worker is terminated and self.mcp_client is not closed. The callers make
\* it their last call on the agent.
Cleanup ==
    /\ stage \in Stages
    /\ agentReady
    /\ ~cleaned
    /\ \A q \in Queries : ~InFlight(q)
    /\ cleaned' = TRUE
    /\ UNCHANGED <<stage, harness, agentReady, nTools, msgObj, heap, checkpoint,
                   conversation_id, qpc, qref, qinput, qstate, outcome, elapsed,
                   resets, workers>>
    /\ AgentOnly

NextAgent ==
    \/ \E n \in {0, DISCOVERED_TOOLS} :
          \E live \in WorkersAfterDiscovery(stage) : Initialize(n, live)
    \/ \E q \in Queries : QueryNotInitialized(q)
    \/ \E q \in Queries : QueryStart04(q)
    \/ \E q \in Queries : \E ok \in BOOLEAN : \E n \in {0, DISCOVERED_TOOLS} :
          \E live \in WorkersAfterDiscovery(stage) : BotChatInit(q, ok, n, live)
    \/ \E q \in Queries : QueryStart05(q)
    \/ \E q \in Queries : ChatStart(q)
    \/ \E q \in Queries : AgentRead(q)
    \/ \E q \in Queries : \E kind \in {"tool_call", "final"} : AgentLLM(q, kind)
    \/ \E q \in Queries : \E res \in {"tool_result", "tool_error"} : AgentTool(q, res)
    \/ \E q \in Queries : AgentRaise(q)
    \/ \E q \in Queries : QueryTimeout(q)
    \/ \E q \in Queries : QueryReturn(q)
    \/ ClearHistory
    \/ Cleanup

----------------------------------------------------------------------------
(* Subprocess transport component: test_mcp_server_direct.py ("direct")    *)
(* and debug_mcp.py ("debug") drive a forecast worker over stdin/stdout.   *)

Scripts == {"direct", "debug"}

Phases == {"init", "list", "call"}

\* the request id each phase writes
\* every request carrying the id of the handshake
RequestId_same(ph) == INIT_ID

RequestId(ph) == CASE ph = "init" -> INIT_ID [] ph = "list" -> LIST_ID [] OTHER -> CALL_ID

\* asyncio.wait_for timeout of each read of the direct script; the debug
\* script reads with a bare readline()
ReadTimeout(ph) == IF ph = "call" THEN CALL_READ_TIMEOUT ELSE HANDSHAKE_READ_TIMEOUT

HasReadTimeout(s) == s = "direct"

NextPhase(ph) == CASE ph = "init" -> "list" [] ph = "list" -> "call" [] OTHER -> "none"

NoRead == [kind |-> "none", id |-> 0]

TransportOff ==
    /\ script = "off"
    /\ ppc = [at |-> "off", phase |-> "none"]
    /\ worker = "off"
    /\ stdinQ = <<>>
    /\ stdoutQ = <<>>
    /\ sent = <<>>
    /\ got = [ph \in Phases |-> NoRead]
    /\ waited = 0
    /\ perror = "none"
    /\ diedInFlight = {}

\* subprocess.Popen(...): the worker runs, nothing has been written yet
InitTransportVars ==
    /\ script \in Scripts
    /\ ppc = [at |-> "send", phase |-> "init"]
    /\ worker = "alive"
    /\ stdinQ = <<>>
    /\ stdoutQ = <<>>
    /\ sent = <<>>
    /\ got = [ph \in Phases |-> NoRead]
    /\ waited = 0
    /\ perror = "none"
    /\ diedInFlight = {}

\* requests written and not yet answered on stdout
Outstanding == {ph \in Phases : ppc.at = "read" /\ ppc.phase = ph /\ stdoutQ = <<>>}

\* process.stdin.write(json.dumps(req) + "\n"); process.stdin.flush()
ParentSend ==
    /\ ppc.at = "send"
    /\ worker = "alive"
    /\ stdinQ' = Append(stdinQ, RequestId(ppc.phase))
    /\ sent' = Append(sent, RequestId(ppc.phase))
    /\ ppc' = [ppc EXCEPT !.at = "read"]
    /\ waited' = 0
    /\ UNCHANGED <<script, worker, stdoutQ, got, perror, diedInFlight>>
    /\ TransportOnly

\* writing to the pipe of a dead worker raises BrokenPipeError: the direct
\* script's "except Exception" prints it, the debug script lets it
\* propagate; both run their finally block
ParentSendBroken ==
    /\ ppc.at = "send"
    /\ worker = "dead"
    /\ perror' = "broken_pipe"
    /\ ppc' = [ppc EXCEPT !.at = "finally"]
    /\ UNCHANGED <<script, worker, stdinQ, stdoutQ, sent, got, waited, diedInFlight>>
    /\ TransportOnly

\* where the script goes after a read returned a line (readline's result is
\* printed, never inspected)
AfterRead(s, ph) ==
    IF ph = "call"
    THEN [at |-> IF s = "debug" THEN "stderr" ELSE "finally", phase |-> ph]
    ELSE [at |-> "send", phase |-> NextPhase(ph)]

\* readline() returns the next line of the worker's stdout
ParentReadLine ==
    /\ ppc.at = "read"
    /\ stdoutQ # <<>>
    /\ got' = [got EXCEPT ![ppc.phase] = [kind |-> "line", id |-> Head(stdoutQ)]]
    /\ stdoutQ' = Tail(stdoutQ)
    /\ ppc' = AfterRead(script, ppc.phase)
    /\ UNCHANGED <<script, worker, stdinQ, sent, waited, perror, diedInFlight>>
    /\ TransportOnly

\* readline() on the closed pipe of a dead worker returns "" at once; the
\* script treats it like any other line
ParentReadEOF ==
    /\ ppc.at = "read"
    /\ stdoutQ = <<>>
    /\ worker = "dead"
    /\ got' = [got EXCEPT ![ppc.phase] = [kind |-> "eof", id |-> 0]]
    /\ ppc' = AfterRead(script, ppc.phase)
    /\ UNCHANGED <<script, worker, stdinQ, stdoutQ, sent, waited, perror, diedInFlight>>
    /\ TransportOnly

\* time passes while the parent is blocked in readline()
ParentWait ==
    /\ ppc.at = "read"
    /\ stdoutQ = <<>>
    /\ worker = "alive"
    /\ IF HasReadTimeout(script) THEN waited < ReadTimeout(ppc.phase)
                                 ELSE waited < MaxWait
    /\ waited' = waited + WaitSeconds
    /\ UNCHANGED <<script, ppc, worker, stdinQ, stdoutQ, sent, got, perror, diedInFlight>>
    /\ TransportOnly

\* a script that carries on with the next request after a timed-out read
AfterTimeout_continue(ph) ==
    IF ph = "call" THEN [at |-> "finally", phase |-> ph]
                   ELSE [at |-> "send", phase |-> NextPhase(ph)]

\* where the direct script goes on asyncio.TimeoutError: the init and call
\* reads first drain process.stderr.read(), the list read returns at once
AfterTimeout(ph) ==
    [at |-> IF ph = "list" THEN "finally" ELSE "stderr", phase |-> ph]

ParentReadTimeout ==
    /\ HasReadTimeout(script)
    /\ ppc.at = "read"
    /\ waited >= ReadTimeout(ppc.phase)
    /\ got' = [got EXCEPT ![ppc.phase] = [kind |-> "timeout", id |-> 0]]
    /\ perror' = "timeout"
    /\ ppc' = AfterTimeout(ppc.phase)
    /\ UNCHANGED <<script, worker, stdinQ, stdoutQ, sent, waited, diedInFlight>>
    /\ TransportOnly

\* process.stderr.read() returns only at end of file, i.e. once the worker
\* has exited
ParentStderrRead ==
    /\ ppc.at = "stderr"
    /\ worker = "dead"
    /\ ppc' = [ppc EXCEPT !.at = "finally"]
    /\ UNCHANGED <<script, worker, stdinQ, stdoutQ, sent, got, waited, perror, diedInFlight>>
    /\ TransportOnly

\* finally: process.terminate(), then wait (or kill)
ParentFinally ==
    /\ ppc.at = "finally"
    /\ worker' = "dead"
    /\ ppc' = [ppc EXCEPT !.at = "exited"]
    /\ UNCHANGED <<script, stdinQ, stdoutQ, sent, got, waited, perror, diedInFlight>>
    /\ TransportOnly

\* the worker reads one request line and writes the response carrying the
\* same id
WorkerRespond ==
    /\ worker = "alive"
    /\ stdinQ # <<>>
    /\ stdoutQ' = Append(stdoutQ, Head(stdinQ))
    /\ stdinQ' = Tail(stdinQ)
    /\ UNCHANGED <<script, ppc, worker, sent, got, waited, perror, diedInFlight>>
    /\ TransportOnly

\* the worker process exits on its own (crash, kill from outside)
WorkerDie ==
    /\ worker = "alive"
    /\ ppc.at \in {"send", "read", "stderr"}
    /\ worker' = "dead"
    /\ diedInFlight' = diedInFlight \cup Outstanding
    /\ UNCHANGED <<script, ppc, stdinQ, stdoutQ, sent, got, waited, perror>>
    /\ TransportOnly

NextTransport ==
    \/ ParentSend
    \/ ParentSendBroken
    \/ ParentReadLine
    \/ ParentReadEOF
    \/ ParentWait
    \/ ParentReadTimeout
    \/ ParentStderrRead
    \/ ParentFinally
    \/ WorkerRespond
    \/ WorkerDie

----------------------------------------------------------------------------
(* Tool handler component *)

Handlers == {"hist05", "hist06", "whist04", "client02", "whist06",
             "fc04", "fc07", "fc06", "agri05", "base05", "wfc04", "wfc06",
             "agri06", "wagri04", "wagri06", "eagri05"}

\* entry points that take a date range
HistoricalHandlers == {"hist05", "hist06", "whist04", "client02", "whist06"}

Min(a, b) == IF a < b THEN a ELSE b
Max(a, b) == IF a > b THEN a ELSE b

NoDate == [k |-> "absent", d |-> 0]
Malformed == [k |-> "malformed", d |-> 0]
Date(d) == [k |-> "date", d |-> d]
NoDays == [has |-> FALSE, v |-> 0]
Days(n) == [has |-> TRUE, v |-> n]

StartArgs == {NoDate, Malformed, Date(Today - 12), Date(Today - 4)}
EndArgs == {NoDate, Malformed} \cup {Date(Today - o) : o \in {10, 6, 5, 4, 3}}
DaysArgs == {NoDays, Days(0), Days(3), Days(30)}
NameArgs == {"absent", "empty", "name"}
\* a coordinate pair: left out, a valid pair with a 0.0 component, any other
\* valid pair, a pair with latitude outside [-90, 90] or longitude outside
\* [-180, 180]
LatLonArgs == {"absent", "zero", "given", "out_of_range"}
ClockHours == {0, 12}

Result(kind, tag) == [kind |-> kind, tag |-> tag]
NoResult == Result("none", "none")
ProviderRequest(endpoint, n) == [endpoint |-> endpoint, days |-> n]

HandlerOff ==
    /\ handler = "off"
    /\ req = [name |-> "absent", latlon |-> "absent", start |-> NoDate,
              end |-> NoDate, days |-> NoDays]
    /\ clock = 0
    /\ hpc = "off"
    /\ failure = "none"
    /\ hresult = NoResult
    /\ geoLookups = 0
    /\ provReqs = <<>>
    /\ coordsSent = "none"

\* one tool call (or one client call) with its arguments, about to be served
InitHandlerVars ==
    /\ handler \in Handlers
    /\ req \in [name : NameArgs, latlon : LatLonArgs, start : StartArgs,
                end : EndArgs, days : DaysArgs]
    /\ IF handler \in HistoricalHandlers
       THEN req.days = NoDays
       ELSE req.start = NoDate /\ req.end = NoDate
    /\ handler \in {"client02", "eagri05"} => req.latlon # "absent" /\ req.name = "absent"
    /\ handler \in {"fc04", "fc07", "agri05", "base05"} => req.latlon = "absent"
    /\ clock \in ClockHours
    /\ hpc = "entry"
    /\ failure = "none"
    /\ hresult = NoResult
    /\ geoLookups = 0
    /\ provReqs = <<>>
    /\ coordsSent = "none"

\* names of the arguments the call leaves out
Omitted(r) ==
    (IF r.name = "absent" THEN {"location"} ELSE {})
    \cup (IF r.start.k = "absent" THEN {"start_date"} ELSE {})
    \cup (IF r.end.k = "absent" THEN {"end_date"} ELSE {})

\* arguments the tool declares as required (inputSchema "required" list,
\* parameters without default, pydantic fields declared with ...)
Required(h) ==
    CASE h = "hist05" -> {"start_date", "end_date"}
      [] h = "hist06" -> {"location", "start_date", "end_date"}
      [] h = "whist04" -> {"start_date", "end_date"}
      [] h = "whist06" -> {"start_date", "end_date"}
      [] h \in {"client02", "wfc04", "wfc06", "wagri04", "wagri06", "eagri05"} -> {}
      [] OTHER -> {"location"}

OmitsRequired(h, r) == Omitted(r) \cap Required(h) # {}

\* datetime.strptime(s, "%Y-%m-%d") succeeds
Parses(date) == date.k = "date"

\* min_date = date.today() - timedelta(days=5)
min_date == Today - EMBARGO_DAYS

\* the same comparison made against today itself
InEmbargo_today(end) == end > Today

\* "if end > min_date": the end date lies inside the embargo window
InEmbargo(end) == end > min_date

\* the date checks of the stage 05 / stage 06 historical servers, in order
DatePolicy(r) ==
    IF ~Parses(r.start) \/ ~Parses(r.end) THEN "invalid_date"
    ELSE IF r.end.d < r.start.d THEN "end_before_start"
    ELSE IF InEmbargo(r.end.d) THEN "embargo"
    ELSE "ok"

\* stage 02 client: "if end_dt < five_days_ago", both datetimes, in hours
five_days_ago(clk) == (Today * 24 + clk) - EMBARGO_DAYS * 24

UsesArchive(end, clk) == end * 24 < five_days_ago(clk)

\* days_back = (datetime.now() - start_dt).days ; past_days = min(days_back, 92)
past_days(start) == Min(Today - start, PAST_DAYS_CAP)

\* the forecast_days each forecast handler sends for a days argument
RequestedDays(r) == IF r.days.has THEN r.days.v ELSE DEFAULT_DAYS

ForecastDays(h, r) ==
    CASE h = "fc04" -> IF RequestedDays(r) > 0 THEN RequestedDays(r) ELSE 0
      [] h = "fc07" -> Min(Max(RequestedDays(r), 1), FORECAST_CAP)
      [] h = "fc06" -> Max(1, Min(RequestedDays(r), FORECAST_CAP))
      [] h \in {"agri05", "agri06"} -> Min(Max(RequestedDays(r), 1), AGRI_CAP)
      [] h \in {"base05", "eagri05"} -> Min(RequestedDays(r), FORECAST_CAP)
      [] h \in {"wfc04", "wfc06", "wagri04", "wagri06"} -> RequestedDays(r)
      [] OTHER -> 0

\* where a handler goes next, and with what result
Done(kind, tag) == [to |-> "done", res |-> Result(kind, tag)]
Geocode == [to |-> "geocoding", res |-> NoResult]
Fetch == [to |-> "fetching", res |-> NoResult]

\* stage 05 historical server, call_tool: dates first, then the location
hist05_entry_unchecked(r) ==
    IF r.latlon # "absent" THEN Fetch ELSE Geocode

hist05_entry(r) ==
    IF DatePolicy(r) # "ok" THEN Done("error_value", DatePolicy(r))
    ELSE IF r.latlon # "absent" THEN Fetch
    ELSE Geocode

\* stage 06 historical server: location, start_date and end_date are
\* parameters without default; the body is the stage 05 logic
hist06_entry(r) ==
    IF OmitsRequired("hist06", r) THEN Done("dispatch_error", "missing_argument")
    ELSE hist05_entry(r)

\* stage 04 LocationInput: validate_latitude, validate_longitude, then
\* check_at_least_one_location
ValidatesLocation04(r) ==
    /\ r.latlon # "out_of_range"
    /\ (r.name # "absent" \/ r.latlon # "absent")

\* stage 04 HistoricalRequest: date format, date order, the location checks
Validates04(r) ==
    /\ Parses(r.start)
    /\ Parses(r.end)
    /\ r.end.d >= r.start.d
    /\ ValidatesLocation04(r)

\* ForecastRequest.days: Field(default=7, ge=1, le=16)
ValidatesDays(r) == RequestedDays(r) >= 1 /\ RequestedDays(r) <= FORECAST_CAP

\* stage 04 unified server: "async with client" fails on the stage 04
\* OpenMeteoClient (it is no async context manager), inside the handler's
\* try and inside get_coordinates' try
whist04_entry(r) ==
    IF ~Validates04(r) THEN Done("dispatch_error", "validation")
    ELSE IF r.latlon # "absent" THEN Done("error_value", "client_protocol")
    ELSE IF r.name = "name" THEN Done("error_value", "not_found")
    ELSE Done("error_value", "location_required")

\* stage 06 HistoricalRequest: both dates required, pattern only
Validates06(r) == Parses(r.start) /\ Parses(r.end)

\* stage 06 unified server: "if request.latitude and request.longitude",
\* no check of the dates against today
whist06_entry(r) ==
    IF ~Validates06(r) THEN Done("dispatch_error", "validation")
    ELSE IF r.latlon \in {"given", "out_of_range"} THEN Fetch
    ELSE IF r.name = "name" THEN Geocode
    ELSE Done("error_value", "location_required")

\* stage 04 unified server, forecast tool: the request model is validated,
\* then "async with client" fails as in the historical tool
wfc04_entry(r) ==
    IF ~(ValidatesDays(r) /\ ValidatesLocation04(r)) THEN Done("dispatch_error", "validation")
    ELSE IF r.latlon # "absent" THEN Done("error_value", "client_protocol")
    ELSE IF r.name = "name" THEN Done("error_value", "not_found")
    ELSE Done("error_value", "location_required")

\* stage 06 unified server, forecast tool: days validated by the request
\* model, coordinates not; "if request.latitude and request.longitude"
wfc06_entry(r) ==
    IF ~ValidatesDays(r) THEN Done("dispatch_error", "validation")
    ELSE IF r.latlon \in {"given", "out_of_range"} THEN Fetch
    ELSE IF r.name = "name" THEN Geocode
    ELSE Done("error_value", "location_required")

\* AgriculturalRequest.days: Field(default=7, ge=1, le=7)
ValidatesAgriDays(r) == RequestedDays(r) >= 1 /\ RequestedDays(r) <= AGRI_CAP

\* stage 04 unified server, agricultural tool
wagri04_entry(r) ==
    IF ~(ValidatesAgriDays(r) /\ ValidatesLocation04(r)) THEN Done("dispatch_error", "validation")
    ELSE IF r.latlon # "absent" THEN Done("error_value", "client_protocol")
    ELSE IF r.name = "name" THEN Done("error_value", "not_found")
    ELSE Done("error_value", "location_required")

\* stage 06 unified server, agricultural tool
wagri06_entry(r) ==
    IF ~ValidatesAgriDays(r) THEN Done("dispatch_error", "validation")
    ELSE IF r.latlon \in {"given", "out_of_range"} THEN Fetch
    ELSE IF r.name = "name" THEN Geocode
    ELSE Done("error_value", "location_required")

\* stage 06 agricultural server: coordinates if provided, else geocode
agri06_entry(r) ==
    IF OmitsRequired("agri06", r) THEN Done("dispatch_error", "missing_argument")
    ELSE IF r.latlon # "absent" THEN Fetch
    ELSE Geocode

\* EnhancedOpenMeteoClient.get_agricultural_conditions(location, days): the
\* location carries its coordinates, get_forecast is called at once
eagri05_entry(r) == Fetch

\* stage 02 client: strptime outside any try, then the choice of endpoint
client02_entry(r) ==
    IF r.start.k # "absent" /\ r.end.k # "absent"
       /\ (~Parses(r.start) \/ ~Parses(r.end))
    THEN Done("raised", "value_error")
    ELSE Fetch

\* stage 04 forecast server: arguments["location"] before the try
fc04_entry(r) ==
    IF r.name = "absent" THEN Done("raised", "key_error") ELSE Geocode

\* stage 07 get_forecast(location: str, days: int = 7)
fc07_entry(r) ==
    IF OmitsRequired("fc07", r) THEN Done("dispatch_error", "missing_argument")
    ELSE Geocode

\* stage 06 forecast server: coordinates if provided, else geocode
fc06_entry(r) ==
    IF OmitsRequired("fc06", r) THEN Done("dispatch_error", "missing_argument")
    ELSE IF r.latlon # "absent" THEN Fetch
    ELSE Geocode

\* stage 05 agricultural server: arguments.get("location", ""), then
\* get_coordinates(location) whatever the location is
agri05_entry(r) == Geocode

\* stage 05 base server: the input model is validated before handle_tool_call
base05_entry(r) ==
    IF OmitsRequired("base05", r) THEN Done("error_value", "validation")
    ELSE Geocode

Entry(h, r) ==
    CASE h = "hist05" -> hist05_entry(r)
      [] h = "hist06" -> hist06_entry(r)
      [] h = "whist04" -> whist04_entry(r)
      [] h = "whist06" -> whist06_entry(r)
      [] h = "client02" -> client02_entry(r)
      [] h = "fc04" -> fc04_entry(r)
      [] h = "fc07" -> fc07_entry(r)
      [] h = "fc06" -> fc06_entry(r)
      [] h = "agri05" -> agri05_entry(r)
      [] h = "wfc04" -> wfc04_entry(r)
      [] h = "wagri04" -> wagri04_entry(r)
      [] h = "wagri06" -> wagri06_entry(r)
      [] h = "agri06" -> agri06_entry(r)
      [] h = "eagri05" -> eagri05_entry(r)
      [] h = "wfc06" -> wfc06_entry(r)
      [] OTHER -> base05_entry(r)

\* the request a handler sends to the provider
Endpoint(h, r, clk) ==
    CASE h \in {"hist05", "hist06", "whist04", "whist06"} -> ProviderRequest("archive", 0)
      [] h = "client02" ->
           IF r.start.k = "absent" \/ r.end.k = "absent"
           THEN ProviderRequest("forecast", 0)
           ELSE IF UsesArchive(r.end.d, clk)
                THEN ProviderRequest("archive", 0)
                ELSE ProviderRequest("forecast", past_days(r.start.d))
      [] OTHER -> ProviderRequest("forecast", ForecastDays(h, r))

\* handlers that resolve names with get_coordinates of the stage 05 / 06
\* api_utils module
UsesSharedHelper(h) == h \in {"hist05", "hist06", "fc06", "agri05", "agri06"}

\* get_coordinates(location) of that module: the match, None, or an exception
get_coordinates(o, swallowed) ==
    IF o = "found" THEN "coords"
    ELSE IF o = "not_found" \/ swallowed THEN "none"
    ELSE "raises"

\* what a handler does with the geocoder's answer o
AfterGeocode(h, o, swallowed) ==
    IF UsesSharedHelper(h)
    THEN CASE get_coordinates(o, swallowed) = "coords" -> Fetch
           [] get_coordinates(o, swallowed) = "none" -> Done("error_value", "not_found")
           [] OTHER -> Done("error_value", o)
    ELSE CASE o = "found" -> Fetch
           [] o = "not_found" -> Done("error_value", "not_found")
           [] o = "network" -> IF h = "fc07" THEN Done("raised", "network")
                                             ELSE Done("error_value", "network")
           [] OTHER -> IF h \in {"fc07", "whist06", "wfc06", "wagri06"} THEN Done("error_value", "not_found")
                                                    ELSE Done("error_value", "http_status")

\* what a handler does with the provider's answer o
AfterProvider(h, o) ==
    CASE o = "ok" -> Done("data", "ok")
      [] h = "eagri05" -> Done("raised", "api_error")
      [] o = "network" -> IF h = "fc07" THEN Done("raised", "network")
                                        ELSE Done("error_value", "network")
      [] OTHER -> IF h \in {"fc07", "whist06", "wfc06", "wagri06"} THEN Done("error_payload", "http_status")
                                               ELSE Done("error_value", "http_status")

\* tools served over the streamable-HTTP transport (stage 06, stage 07)
HttpHandlers == {"hist06", "fc06", "whist06", "wfc06", "fc07"}

\* keys of the error dict a handler returns: the stage 06 forecast and
\* historical servers add "status_code", the stage 06 unified server and
\* the stage 07 server return {"error": ...} only
ErrorFields(h) ==
    IF h \in {"hist06", "fc06"} THEN {"error", "status_code"} ELSE {"error"}

Advance(step) ==
    /\ hpc' = step.to
    /\ hresult' = step.res
    /\ geoLookups' = IF step.to = "geocoding" THEN geoLookups + 1 ELSE geoLookups
    /\ provReqs' = IF step.to = "fetching"
                   THEN Append(provReqs, Endpoint(handler, req, clock))
                   ELSE provReqs
    /\ coordsSent' = IF step.to # "fetching" THEN coordsSent
                     ELSE IF hpc = "entry" THEN req.latlon
                     ELSE "geocoded"

\* the call is dispatched and runs up to its first network round trip
HandlerEntry ==
    /\ hpc = "entry"
    /\ Advance(Entry(handler, req))
    /\ UNCHANGED <<handler, req, clock, failure>>
    /\ HandlerOnly

\* the geocoding service answers
GeocodeReturn(o, swallowed) ==
    /\ hpc = "geocoding"
    /\ swallowed => UsesSharedHelper(handler) /\ o \in {"network", "http_status"}
    /\ failure' = IF o = "found" THEN failure ELSE o
    /\ Advance(AfterGeocode(handler, o, swallowed))
    /\ UNCHANGED <<handler, req, clock>>
    /\ HandlerOnly

\* the weather provider answers
ProviderReturn(o) ==
    /\ hpc = "fetching"
    /\ failure' = IF o = "ok" THEN failure ELSE o
    /\ Advance(AfterProvider(handler, o))
    /\ UNCHANGED <<handler, req, clock>>
    /\ HandlerOnly

NextHandler ==
    \/ HandlerEntry
    \/ \E o \in {"found", "not_found", "network", "http_status"} :
          \E swallowed \in BOOLEAN : GeocodeReturn(o, swallowed)
    \/ \E o \in {"ok", "network", "http_status"} : ProviderReturn(o)

----------------------------------------------------------------------------
(* Request component: EnhancedOpenMeteoClient._make_request *)

RetryArgs == 0..MaxRetriesArg

\* what a get_forecast call asks for (one location, default hourly_params):
\* days, daily_params, include_current
ForecastParams == [days : {3, DEFAULT_DAYS}, daily : {"default", "custom"},
                   current : BOOLEAN]

\* a call of _make_request without cache_key
PlainParams == [days |-> 0, daily |-> "none", current |-> FALSE]
NoKey == [kind |-> "none", days |-> 0]

\* get_forecast: cache_key = f"forecast_{coords}_{days}_{hash(hourly_params)}"
forecast_cache_key(p) == [kind |-> "forecast", days |-> p.days]

\* WeatherCache.get(url=url, key=cache_key): the entry stored under the key
Cached(k) == {e \in cache : e.key = k}

RECURSIVE Pow2(_)
Pow2(n) == IF n = 0 THEN 1 ELSE 2 * Pow2(n - 1)

\* a fixed pause instead of the exponential one
BackoffSeconds_constant(a) == 1

\* "await asyncio.sleep(2 ** attempt)"
BackoffSeconds(a) == Pow2(a)

\* a loop that catches every failure, the rate limit included
Retryable_all(o) == o # "ok"

\* failures the loop catches and goes on from: httpx.HTTPStatusError and
\* httpx.RequestError; RateLimitError is re-raised
Retryable(o) == o \in {"http_status", "request_error"}

RequestOff ==
    /\ max_retries = 0
    /\ cache = {}
    /\ cache_key = NoKey
    /\ params = PlainParams
    /\ served = PlainParams
    /\ rpc = "off"
    /\ attempt = 0
    /\ last_error = "none"
    /\ httpAttempts = <<>>
    /\ sleeps = <<>>
    /\ rresult = "none"
    /\ calls = 0

\* EnhancedOpenMeteoClient(max_retries=...): empty cache, no call yet
InitRequestVars ==
    /\ max_retries \in RetryArgs
    /\ cache = {}
    /\ cache_key = NoKey
    /\ params = PlainParams
    /\ served = PlainParams
    /\ rpc = "idle"
    /\ attempt = 0
    /\ last_error = "none"
    /\ httpAttempts = <<>>
    /\ sleeps = <<>>
    /\ rresult = "none"
    /\ calls = 0

\* _make_request(url, params, cache_key) is called
MakeRequest(p, k) ==
    /\ rpc \in {"idle", "done"}
    /\ calls < MaxCalls
    /\ calls' = calls + 1
    /\ params' = p
    /\ served' = PlainParams
    /\ cache_key' = k
    /\ rpc' = "check"
    /\ attempt' = 0
    /\ last_error' = "none"
    /\ httpAttempts' = <<>>
    /\ sleeps' = <<>>
    /\ rresult' = "none"
    /\ UNCHANGED <<max_retries, cache>>
    /\ RequestOnly

\* "if cache_key: cached = self.cache.get(...); if cached: return cached",
\* then the loop starts, or ends at once when range(max_retries) is empty
CacheCheck ==
    /\ rpc = "check"
    /\ IF cache_key # NoKey /\ Cached(cache_key) # {}
       THEN /\ rpc' = "done"
            /\ rresult' = "cached"
            /\ served' = (CHOOSE e \in Cached(cache_key) : TRUE).params
       ELSE /\ UNCHANGED served
            /\ IF max_retries > 0
               THEN rpc' = "get" /\ UNCHANGED rresult
               ELSE rpc' = "done" /\ rresult' = "max_retries_exceeded"
    /\ UNCHANGED <<max_retries, cache, cache_key, params, attempt, last_error,
                   httpAttempts, sleeps, calls>>
    /\ RequestOnly

\* one "await self.client.get(url, params=params)" and what follows it in
\* the loop body, up to the backoff
HttpGet(o) ==
    /\ rpc = "get"
    /\ httpAttempts' = Append(httpAttempts, o)
    /\ cache' = IF o = "ok" /\ cache_key # NoKey
                THEN (cache \ Cached(cache_key))
                         \cup {[key |-> cache_key, params |-> params]}
                ELSE cache
    /\ served' = IF o = "ok" THEN params ELSE served
    /\ last_error' = IF Retryable(o) THEN o ELSE last_error
    /\ CASE o = "ok" -> rpc' = "done" /\ rresult' = "data"
         [] Retryable(o) -> IF attempt < max_retries - 1
                            THEN rpc' = "sleep" /\ UNCHANGED rresult
                            ELSE rpc' = "done" /\ rresult' = "api_error"
         [] OTHER -> rpc' = "done" /\ rresult' = "rate_limit_error"
    /\ UNCHANGED <<max_retries, cache_key, params, attempt, sleeps, calls>>
    /\ RequestOnly

\* "if attempt < self.max_retries - 1: await asyncio.sleep(2 ** attempt)",
\* then the next iteration
Backoff ==
    /\ rpc = "sleep"
    /\ sleeps' = Append(sleeps, BackoffSeconds(attempt))
    /\ attempt' = attempt + 1
    /\ rpc' = "get"
    /\ UNCHANGED <<max_retries, cache, cache_key, params, served, last_error,
                   httpAttempts, rresult, calls>>
    /\ RequestOnly

NextRequest ==
    \/ \E p \in ForecastParams : MakeRequest(p, forecast_cache_key(p))
    \/ MakeRequest(PlainParams, NoKey)
    \/ CacheCheck
    \/ \E o \in {"ok", "rate_limited", "http_status", "request_error"} : HttpGet(o)
    \/ Backoff

----------------------------------------------------------------------------
(* Location resolver component: get_coordinates_enhanced ("enhanced") and  *)
(* get_coordinates_with_alternatives ("alternatives") of stage 06.         *)

Resolvers == {"enhanced", "alternatives"}

\* one geocoder match: name, admin1 (state / province, "" when absent),
\* country, population in thousands
Match(name, admin1, country, population) ==
    [name |-> name, admin1 |-> admin1, country |-> country, population |-> population]

NoMatch == Match("", "", "", 0)

GeocoderMatches ==
    {Match("Paris", "Ile-de-France", "France", 2000),
     Match("Paris", "Texas", "United States", 25),
     Match("Paris", "Tennessee", "United States", 10),
     Match("Paris", "", "Canada", 0)}

\* the geocoder's answer to count=5: up to MaxResults distinct matches
ResultLists ==
    {rs \in UNION {[1..n -> GeocoderMatches] : n \in 0..MaxResults} :
        \A i, j \in 1..Len(rs) : i # j => rs[i] # rs[j]}

\* location arguments, split at the commas and stripped
LocationArgs == {<<"">>, <<"Paris">>, <<"Paris", "Texas">>, <<"Paris", "France">>}

\* str.lower()
lower(str) ==
    CASE str = "Paris" -> "paris"
      [] str = "Texas" -> "texas"
      [] str = "Tennessee" -> "tennessee"
      [] str = "France" -> "france"
      [] str = "Ile-de-France" -> "ile-de-france"
      [] str = "United States" -> "united states"
      [] str = "Canada" -> "canada"
      [] OTHER -> str

\* "part in result_part" on the lower-case strings above
Contains(part, str) ==
    \/ part = ""
    \/ part = str
    \/ part = "france" /\ str = "ile-de-france"

\* "if not location or not location.strip()"
Blank(loc) == loc = <<"">>

\* result_parts: the lower-cased name, admin1 and country that are present
result_parts(m) == {lower(f) : f \in {m.name, m.admin1, m.country} \ {""}}

\* all(any(part in result_part for result_part in result_parts)
\*     for part in location_parts)
AllPartsMatch(loc, m) ==
    \A i \in 1..Len(loc) : \E f \in result_parts(m) : Contains(lower(loc[i]), f)

Matching(loc, rs) == {i \in 1..Len(rs) : AllPartsMatch(loc, rs[i])}

\* get_coordinates_enhanced: results[0] unless the location has a comma and
\* some result matches all its parts, then the first such result
best_match(loc, rs) ==
    IF Len(loc) > 1 /\ Matching(loc, rs) # {}
    THEN rs[CHOOSE i \in Matching(loc, rs) : \A j \in Matching(loc, rs) : i <= j]
    ELSE rs[1]

\* get_coordinates_with_alternatives: the results sorted by population,
\* largest first (a stable sort); the first of them is the primary
primary(rs) ==
    rs[CHOOSE i \in 1..Len(rs) :
          \A j \in 1..Len(rs) :
              \/ rs[i].population > rs[j].population
              \/ rs[i].population = rs[j].population /\ i <= j]

Resolution(kind, m) == [kind |-> kind, m |-> m]

\* what either function returns when it has no match to return
NoResolution(f) == IF f = "enhanced" THEN Resolution("none", NoMatch)
                                     ELSE Resolution("error", NoMatch)

ResolverOff ==
    /\ resolver = "off"
    /\ location = <<"">>
    /\ results = <<>>
    /\ gpc = "off"
    /\ resolution = Resolution("pending", NoMatch)

InitResolverVars ==
    /\ resolver \in Resolvers
    /\ location \in LocationArgs
    /\ results \in ResultLists
    /\ gpc = "entry"
    /\ resolution = Resolution("pending", NoMatch)

\* the function is called: a blank location returns at once, otherwise
\* client.geocode(city, count=5) is awaited
ResolveEntry ==
    /\ gpc = "entry"
    /\ IF Blank(location)
       THEN gpc' = "done" /\ resolution' = NoResolution(resolver)
       ELSE gpc' = "geocoding" /\ UNCHANGED resolution
    /\ UNCHANGED <<resolver, location, results>>
    /\ ResolverOnly

\* the geocoder answers with its matches, or the call raises
ResolveGeocoded(o) ==
    /\ gpc = "geocoding"
    /\ gpc' = "done"
    /\ resolution' =
          IF o = "raises" \/ results = <<>> THEN NoResolution(resolver)
          ELSE IF resolver = "enhanced"
               THEN Resolution("match", best_match(location, results))
               ELSE Resolution("match", primary(results))
    /\ UNCHANGED <<resolver, location, results>>
    /\ ResolverOnly

NextResolver ==
    \/ ResolveEntry
    \/ \E o \in {"answers", "raises"} : ResolveGeocoded(o)

----------------------------------------------------------------------------
(* Cache component: WeatherCache of stage 05 enhanced_api_utils, with the  *)
(* clock its get() and set() read.                                         *)

CacheKeys == {"k1", "k2"}
CacheData == {"d1", "d2"}

\* the ttl_seconds a cache is constructed with
TtlArgs == 0..MaxTtl

\* a slot of self._cache
NoEntry == [has |-> FALSE, data |-> "None", timestamp |-> 0]
CacheEntry(d, t) == [has |-> TRUE, data |-> d, timestamp |-> t]

NoGet == [key |-> "none", at |-> 0, result |-> "None", before |-> NoEntry,
          kept |-> FALSE]

\* an entry of exactly ttl_seconds still counts as fresh
Fresh_inclusive(now, timestamp, ttl) == now - timestamp <= ttl

\* "datetime.utcnow() - timestamp < timedelta(seconds=self.ttl_seconds)"
Fresh(now, timestamp, ttl) == now - timestamp < ttl

CacheOff ==
    /\ ttl_seconds = -1
    /\ entries = [k \in CacheKeys |-> NoEntry]
    /\ written = [k \in CacheKeys |-> NoEntry]
    /\ utcnow = 0
    /\ lastGet = NoGet

\* WeatherCache(ttl_seconds): an empty dict
InitCacheVars ==
    /\ ttl_seconds \in TtlArgs
    /\ entries = [k \in CacheKeys |-> NoEntry]
    /\ written = [k \in CacheKeys |-> NoEntry]
    /\ utcnow = 0
    /\ lastGet = NoGet

\* WeatherCache.get(**kwargs) for the key k
CacheGet(k) ==
    /\ ttl_seconds >= 0
    /\ LET e == entries[k]
           hit == e.has /\ Fresh(utcnow, e.timestamp, ttl_seconds)
       IN  /\ entries' = IF e.has /\ ~hit THEN [entries EXCEPT ![k] = NoEntry]
                          ELSE entries
           /\ lastGet' = [key |-> k, at |-> utcnow,
                          result |-> IF hit THEN e.data ELSE "None",
                          before |-> written[k],
                          kept |-> hit]
    /\ UNCHANGED <<ttl_seconds, written, utcnow>>
    /\ CacheOnly

\* WeatherCache.set(data, **kwargs) for the key k
CacheSet(k, d) ==
    /\ ttl_seconds >= 0
    /\ entries' = [entries EXCEPT ![k] = CacheEntry(d, utcnow)]
    /\ written' = [written EXCEPT ![k] = CacheEntry(d, utcnow)]
    /\ UNCHANGED <<ttl_seconds, utcnow, lastGet>>
    /\ CacheOnly

\* WeatherCache.clear()
CacheClear ==
    /\ ttl_seconds >= 0
    /\ entries' = [k \in CacheKeys |-> NoEntry]
    /\ written' = [k \in CacheKeys |-> NoEntry]
    /\ UNCHANGED <<ttl_seconds, utcnow, lastGet>>
    /\ CacheOnly

\* a second passes
CacheTick ==
    /\ ttl_seconds >= 0
    /\ utcnow < MaxNow
    /\ utcnow' = utcnow + 1
    /\ UNCHANGED <<ttl_seconds, entries, written, lastGet>>
    /\ CacheOnly

NextCache ==
    \/ \E k \in CacheKeys : CacheGet(k)
    \/ \E k \in CacheKeys, d \in CacheData : CacheSet(k, d)
    \/ CacheClear
    \/ CacheTick

----------------------------------------------------------------------------
(* Properties *)

\* C1: while the stage-04 harness runs query() calls concurrently, no
\* in-flight call works on conversation history that another in-flight call
\* has read or written: two in-flight calls never hold the same list object,
\* and the messages one call's agent run has read hold no turn of another
\* in-flight call.
ConcurrentQueriesShareNoHistory ==
    (stage = "s04" /\ harness = "concurrent") =>
        \A p, q \in Queries :
            (p # q /\ InFlight(p) /\ InFlight(q)) =>
                /\ qref[p] # qref[q]
                /\ \A i \in 1..Len(qstate[p]) : qstate[p][i].q # q

\* the conversation of the agent session: self.messages in stage 04, the
\* current thread's checkpoint in stages 05 and 06
Conversation == IF UsesCheckpointer(stage) THEN checkpoint[conversation_id] ELSE messages

\* C2: within one agent session the conversation grows monotonically: as
\* long as no reset happens, every step leaves every turn of the
\* conversation in place, at the same position.
ConversationGrowsMonotonically ==
    [][resets' = resets => IsPrefix(Conversation, Conversation')]_vars

\* C3: if the worker terminates while a call is in flight, the parent's read
\* of that call ends in a transport error, and the parent never stays
\* blocked in a read beyond the read timeout of that read.
DeadWorkerFailsCallInTime ==
    /\ \A ph \in diedInFlight : got[ph].kind # "none" => perror # "none"
    /\ ppc.at = "read" => waited <= ReadTimeout(ppc.phase)

\* C4: every agent query ends within the 120-second limit: no call spends
\* more than 120 seconds in the agent, and a call that fails with the
\* timeout error does so at 120 seconds.
QueryEndsWithinTimeout ==
    \A q \in Queries :
        /\ elapsed[q] <= QUERY_TIMEOUT
        /\ outcome[q] = "timeout_error" => elapsed[q] = QUERY_TIMEOUT

\* C5: given well-formed dates with start <= end (and all required
\* arguments), the stage 05 and stage 06 historical handlers reject an end
\* date of today - 3 with the embargo error before any lookup or request,
\* and accept an end date of today - 10: they never reject it for its dates,
\* and forward it to the archive endpoint (exactly one archive request) as
\* soon as the location is known, returning the archive's data when neither
\* the geocoder nor the provider fails.
EmbargoRejectsRecentAcceptsOld ==
    (/\ handler \in {"hist05", "hist06"}
     /\ ~OmitsRequired(handler, req)
     /\ Parses(req.start) /\ Parses(req.end) /\ req.start.d <= req.end.d
     /\ hpc # "entry") =>
        /\ req.end.d = Today - 3 =>
              /\ hpc = "done"
              /\ hresult = Result("error_value", "embargo")
              /\ geoLookups = 0
              /\ provReqs = <<>>
        /\ req.end.d = Today - 10 =>
              /\ hresult.tag \notin {"embargo", "invalid_date", "end_before_start"}
              /\ req.latlon # "absent" => provReqs = <<ProviderRequest("archive", 0)>>
              /\ hpc = "fetching" => provReqs = <<ProviderRequest("archive", 0)>>
              /\ (hpc = "done" /\ failure = "none") =>
                    /\ hresult = Result("data", "ok")
                    /\ provReqs = <<ProviderRequest("archive", 0)>>

\* C5 witness: a request ending at today - 10 was served from the archive
OldRangeServedFromArchive ==
    /\ handler = "hist06"
    /\ req.end = Date(Today - 10)
    /\ req.latlon = "absent"
    /\ geoLookups = 1
    /\ hresult = Result("data", "ok")
    /\ provReqs = <<ProviderRequest("archive", 0)>>

\* the end date lies within the 5 days before today
WithinEmbargoWindow(date) ==
    /\ Parses(date)
    /\ date.d > Today - EMBARGO_DAYS
    /\ date.d <= Today

\* C6: every historical-range entry point rejects a request whose end date
\* falls within the 5 days before today: no provider request is issued for
\* it and the call ends with an error.
EveryEntryPointRejectsEmbargoedRange ==
    (handler \in HistoricalHandlers /\ WithinEmbargoWindow(req.end)) =>
        /\ provReqs = <<>>
        /\ hpc = "done" => hresult.kind \in {"error_value", "dispatch_error", "raised"}

\* C7 (as stated): no failed request is retried: a call of _make_request
\* makes at most one HTTP attempt and never sleeps between attempts.
NoRequestIsRetried ==
    /\ Len(httpAttempts) <= 1
    /\ sleeps = <<>>

\* C7 (amended): _make_request retries a failed request: an attempt is
\* followed by another only if it failed with an HTTP status error or a
\* request error (never after a success or a 429), every retry is preceded
\* by a backoff sleep of 2^attempt seconds (1, 2, 4, ...), and there is one
\* sleep per retry, fewer than max_retries in all.
RetriesFollowFailureWithBackoff ==
    /\ \A i \in 1..(Len(httpAttempts) - 1) : Retryable(httpAttempts[i])
    /\ \A i \in 1..Len(sleeps) : sleeps[i] = Pow2(i - 1)
    /\ Len(sleeps) = attempt
    /\ Len(sleeps) < Max(max_retries, 1)
    /\ rpc \in {"get", "check", "idle"} => Len(httpAttempts) = Len(sleeps)
    /\ rpc = "sleep" => Len(httpAttempts) = Len(sleeps) + 1
    /\ (rpc = "done" /\ httpAttempts # <<>>) => Len(httpAttempts) = Len(sleeps) + 1

\* C7 witness: a request failed twice and was tried a third time, after
\* sleeping 1 and then 2 seconds
RetriedWithBackoff ==
    /\ Len(httpAttempts) = 3
    /\ sleeps = <<1, 2>>
    /\ rresult = "data"

\* C8: during query(), a failure other than the 120-second timeout is turned
\* into a returned value; it never leaves query() as an exception.
OnlyTimeoutPropagates ==
    \A q \in Queries : outcome[q] # "raised_error"

\* C9: every tool handler surfaces a network error, an HTTP error status and
\* a location-not-found as a returned structured error value; none of them
\* leaves the handler as a raised exception.
FailuresReturnedAsErrorValues ==
    (handler # "client02" /\ hpc = "done" /\ failure # "none") =>
        hresult.kind = "error_value"

\* C10: a tool call that omits a required argument fails before the handler
\* does any work: no geocoding lookup and no provider request is issued.
MissingArgumentFailsBeforeWork ==
    (handler \in Handlers /\ OmitsRequired(handler, req)) =>
        /\ geoLookups = 0
        /\ provReqs = <<>>

\* C11: a tools/list or tools/call request is written to a worker only
\* after the read that follows the initialize request returned the worker's
\* response to it.
ToolRequestsFollowHandshake ==
    \A i \in 1..Len(sent) :
        sent[i] \in {LIST_ID, CALL_ID} =>
            got["init"] = [kind |-> "line", id |-> INIT_ID]

\* C11 witness: the handshake was answered and both tool requests were
\* written after it
ToolRequestsSentAfterHandshake ==
    /\ sent = <<INIT_ID, LIST_ID, CALL_ID>>
    /\ got["init"] = [kind |-> "line", id |-> INIT_ID]

\* C12: calls to a worker are strictly sequential: no request is written to
\* a worker while an earlier request to that worker still awaits its
\* response. Stage 04 serves every tool from its single "weather" worker,
\* so a tool dispatch of one query() is a request to that worker.
WorkerCallsStrictlySequential ==
    /\ Len(stdinQ) + Len(stdoutQ) <= 1
    /\ stage = "s04" =>
           \A p, q \in Queries :
               (qpc[p] = "tools" /\ qpc[q] = "tools") => p = q

\* C13: the ids of the requests written to a worker strictly increase, and
\* a response read for a request carries that request's id.
RequestIdsIncreaseAndMatch ==
    /\ \A i, j \in 1..Len(sent) : i < j => sent[i] < sent[j]
    /\ \A ph \in Phases : got[ph].kind = "line" => got[ph].id = RequestId(ph)

\* C13 witness: three requests were written and the response to the last
\* one was read
ThirdResponseMatched ==
    /\ Len(sent) = 3
    /\ got["call"] = [kind |-> "line", id |-> CALL_ID]

\* C14: once cleanup() has returned, every worker subprocess that
\* initialize() created has been terminated.
CleanupTerminatesWorkers ==
    cleaned => workers = 0

\* the tools and client calls that answer a forecast request
ForecastHandlers == {"fc04", "fc07", "fc06", "base05", "wfc04", "wfc06"}

\* C15: a forecast request for more than 16 days (30) is served with
\* forecast_days = 16 and one for 0 days with forecast_days = 1; the request
\* is not rejected for its days, and every forecast_days value sent to the
\* provider lies in [1, 16].
ForecastDaysClampedNeverRejected ==
    (/\ handler \in ForecastHandlers
     /\ req.days.has
     /\ ~OmitsRequired(handler, req)
     /\ handler = "wfc04" => ValidatesLocation04(req)) =>
        /\ hresult # Result("dispatch_error", "validation")
        /\ \A i \in 1..Len(provReqs) :
               /\ provReqs[i].days = Max(1, Min(req.days.v, FORECAST_CAP))
               /\ provReqs[i].days >= 1
               /\ provReqs[i].days <= FORECAST_CAP

\* the tools and client calls that accept a latitude and a longitude
CoordinateHandlers == {"hist05", "hist06", "whist04", "whist06", "client02",
                       "fc06", "wfc04", "wfc06"}

\* C16: when a valid latitude and longitude are supplied, the handler makes
\* no geocoding lookup and the provider request carries exactly the supplied
\* pair, for every valid pair (0.0 components included).
SuppliedCoordinatesUsedWithoutGeocoding ==
    (handler \in CoordinateHandlers /\ req.latlon \in {"zero", "given"}) =>
        /\ geoLookups = 0
        /\ hresult.tag # "location_required"
        /\ provReqs # <<>> => coordsSent = req.latlon

\* C17: a request whose explicit latitude lies outside [-90, 90] or whose
\* longitude lies outside [-180, 180] is rejected: it ends with an error and
\* no provider request is issued for it.
OutOfRangeCoordinatesRejected ==
    (handler \in CoordinateHandlers /\ req.latlon = "out_of_range") =>
        /\ provReqs = <<>>
        /\ hpc = "done" => hresult.kind \in {"error_value", "dispatch_error", "raised"}

\* C18: the response cache is keyed by the request's parameters: a call
\* that is answered from the cache gets the response stored by a request
\* with the same parameters as its own.
CachedResponseOnlyForEqualParameters ==
    rresult = "cached" => served = params

\* the conversation holds nothing but what a new session holds: the system
\* turn in self.messages (stage 04), an empty thread (stage 05, 06)
FreshConversation ==
    Conversation = IF UsesCheckpointer(stage) THEN <<>> ELSE <<SystemTurn>>

RegionQualifiedQueryResolvesToRegion ==
    (/\ location = <<"Paris", "Texas">>
     /\ Len(results) > 1
     /\ \E i \in 1..Len(results) : results[i].admin1 = "Texas"
     /\ resolution.kind = "match") =>
        resolution.m.admin1 = "Texas"

\* C21: every failed call to an HTTP-variant tool is answered with a
\* payload that holds both an error message and a status code.
HttpFailuresCarryStatusCode ==
    (/\ handler \in HttpHandlers
     /\ hpc = "done"
     /\ hresult.kind \notin {"data", "dispatch_error"}) =>
        /\ hresult.kind = "error_value"
        /\ ErrorFields(handler) = {"error", "status_code"}

\* C22: when tool discovery yields no tool, initialize() creates no agent,
\* so no query is ever processed with an empty tool set (stages whose
\* initialize() discovers its tools from the servers).
EmptyDiscoveryCreatesNoAgent ==
    stage \in {"s04", "s05", "chat"} =>
        /\ agentReady => nTools > 0
        /\ \A q \in Queries : InFlight(q) => nTools > 0

\* the tools and client calls that fetch agricultural conditions
AgriculturalHandlers == {"agri05", "agri06", "wagri04", "wagri06", "eagri05"}

\* C23: agricultural-condition calls are capped to 7 days: whatever day
\* count is requested, the forecast_days sent to the provider is at most 7.
AgriculturalDaysCappedAtSeven ==
    handler \in AgriculturalHandlers =>
        \A i \in 1..Len(provReqs) : provReqs[i].days <= AGRI_CAP

ThreadHasOneLeadingSystemTurn ==
    UsesCheckpointer(stage) =>
        \A t \in ThreadIds :
            checkpoint[t] # <<>> =>
                /\ checkpoint[t][1] = SystemTurn
                /\ \A i \in 2..Len(checkpoint[t]) : checkpoint[t][i].role # "system"

\* C25 witness: two queries were answered on the same thread; the system
\* turn was inserted by the first one only
SecondQueryOnThreadAddsNoSystemTurn ==
    /\ stage = "s05"
    /\ outcome[1] = "final_text"
    /\ outcome[2] = "final_text"
    /\ qref[1] = qref[2]
    /\ checkpoint[qref[2]][1] = SystemTurn
    /\ \E i \in 2..Len(checkpoint[qref[2]]) : checkpoint[qref[2]][i] = Turn("user", 2)

\* C26: a call of _make_request issues at most max_retries HTTP attempts,
\* exactly one when the first response is a 429, and every call that was
\* started ends, with data (fetched or cached) or with a raised error.
RequestEndsWithinMaxRetries ==
    /\ [](/\ Len(httpAttempts) <= max_retries
          /\ (httpAttempts # <<>> /\ httpAttempts[1] = "rate_limited") =>
                 /\ Len(httpAttempts) = 1
                 /\ rpc = "done"
                 /\ rresult = "rate_limit_error"
          /\ rpc = "done" =>
                 rresult \in {"data", "cached", "rate_limit_error", "api_error",
                              "max_retries_exceeded"})
    /\ (rpc = "check" ~> rpc = "done")

\* C26 witness: with the largest retry budget, the first response was a 429
\* and the call ended after that single attempt
RateLimitedCallEndedAfterOneAttempt ==
    /\ max_retries = MaxRetriesArg
    /\ rpc = "done"
    /\ httpAttempts = <<"rate_limited">>
    /\ rresult = "rate_limit_error"

\* C27: a request to the stage 05 or stage 06 historical handler whose
\* dates are rejected (invalid format, end before start, end inside the
\* embargo window) never causes a geocoding lookup or a provider request,
\* and ends with the error of the date check that failed.
RejectedDatesCauseNoLookupNoRequest ==
    (/\ handler \in {"hist05", "hist06"}
     /\ ~OmitsRequired(handler, req)
     /\ DatePolicy(req) # "ok") =>
        /\ geoLookups = 0
        /\ provReqs = <<>>
        /\ hpc \in {"entry", "done"}
        /\ hpc = "done" => hresult = Result("error_value", DatePolicy(req))

\* C27 witness: a named location with an end date before the start date
\* was rejected without any lookup
EndBeforeStartRejectedBeforeGeocoding ==
    /\ handler = "hist05"
    /\ req.name = "name"
    /\ req.latlon = "absent"
    /\ DatePolicy(req) = "end_before_start"
    /\ hpc = "done"
    /\ hresult = Result("error_value", "end_before_start")
    /\ geoLookups = 0
    /\ provReqs = <<>>

\* C28: the historical handlers (stage 05 and 06 servers, stage 02 client)
\* send a request to the archive endpoint only if its end date is strictly
\* earlier than today minus 5 days.
ArchiveOnlyStrictlyBeforeLimit ==
    (/\ handler \in {"hist05", "hist06", "client02"}
     /\ \E i \in 1..Len(provReqs) : provReqs[i].endpoint = "archive") =>
        req.end.d < Today - EMBARGO_DAYS

\* C29: WeatherCache.get never returns an entry stored ttl_seconds or more
\* ago: for the last get() of a key under which something was stored, an
\* age of ttl_seconds or more gives a miss and the entry is no longer kept,
\* and a smaller age gives the stored data unchanged; a hit is always data
\* that was stored under the key less than ttl_seconds before.
ExpiredEntryNeverReturned ==
    lastGet.key # "none" =>
        LET w == lastGet.before
            age == lastGet.at - w.timestamp
        IN  /\ lastGet.result # "None" =>
                  /\ w.has
                  /\ age < ttl_seconds
                  /\ lastGet.result = w.data
            /\ (w.has /\ age >= ttl_seconds) =>
                  /\ lastGet.result = "None"
                  /\ ~lastGet.kept
                  /\ (entries[lastGet.key].has =>
                         entries[lastGet.key].timestamp >= lastGet.at)
            /\ (w.has /\ age < ttl_seconds) =>
                  /\ lastGet.result = w.data
                  /\ lastGet.kept

\* C29 witness: an entry was looked up exactly ttl_seconds after it was
\* stored; the lookup missed and the entry is gone
EntryOfExactlyTtlExpired ==
    /\ ttl_seconds = MaxTtl
    /\ lastGet.key = "k1"
    /\ lastGet.before.has
    /\ lastGet.at - lastGet.before.timestamp = ttl_seconds
    /\ lastGet.result = "None"
    /\ entries["k1"] = NoEntry
    /\ utcnow = lastGet.at

\* C30: SimpleWeatherChatbot.chat() never raises: every call that ended,
\* whatever failed (the lazy initialize() included), ended by returning a
\* string to the caller.
ChatNeverRaises ==
    stage = "bot04" =>
        \A q \in Queries :
            qpc[q] = "done" =>
                outcome[q] \in {"final_text", "timeout_string", "error_string"}

----------------------------------------------------------------------------
(* Specifications *)

InitAgent == InitAgentVars /\ TransportOff /\ HandlerOff /\ RequestOff /\ ResolverOff /\ CacheOff

InitTransport == InitTransportVars /\ AgentOff /\ HandlerOff /\ RequestOff /\ ResolverOff /\ CacheOff

InitHandler == InitHandlerVars /\ AgentOff /\ TransportOff /\ RequestOff /\ ResolverOff /\ CacheOff

InitRequest == InitRequestVars /\ AgentOff /\ TransportOff /\ HandlerOff /\ ResolverOff /\ CacheOff

InitResolver == InitResolverVars /\ AgentOff /\ TransportOff /\ HandlerOff /\ RequestOff /\ CacheOff

InitCache ==
    /\ InitCacheVars
    /\ AgentOff /\ TransportOff /\ HandlerOff /\ RequestOff /\ ResolverOff

Init == InitAgent \/ InitTransport \/ InitHandler \/ InitRequest \/ InitResolver \/ InitCache

Next == NextAgent \/ NextTransport \/ NextHandler \/ NextRequest \/ NextResolver \/ NextCache

SpecAgent == InitAgent /\ [][NextAgent]_vars

SpecTransport == InitTransport /\ [][NextTransport]_vars

SpecHandler == InitHandler /\ [][NextHandler]_vars

SpecRequest == InitRequest /\ [][NextRequest]_vars

\* _make_request is one coroutine: once called, the event loop runs it on;
\* the HTTP client has a timeout, so every get returns or fails
SpecRequestFair ==
    /\ InitRequest
    /\ [][NextRequest]_vars
    /\ WF_vars(CacheCheck)
    /\ WF_vars(\E o \in {"ok", "rate_limited", "http_status", "request_error"} : HttpGet(o))
    /\ WF_vars(Backoff)

SpecResolver == InitResolver /\ [][NextResolver]_vars

SpecCache == InitCache /\ [][NextCache]_vars

Spec == Init /\ [][Next]_vars

====
